---------------------------- MODULE Spec2Model ----------------------------
(***************************************************************************)
(* State-machine model of the NTS tracklist crawler (src/src/index.ts):    *)
(* main's catalog loop, ShowProcessor.processShow / saveTracklist and      *)
(* NTSScraperService.fetchAllEpisodes / fetchTracklist, with the disk      *)
(* (checkpoint.json and the per-show output files), the upstream API and   *)
(* the token bucket of the rate limiter as the environment.                *)
(*                                                                         *)
(* A JavaScript string is a sequence of one-character strings, so that     *)
(* toLowerCase, the two replace calls and JSON.stringify / JSON.parse are  *)
(* computed character by character.  A URL or an API path is the sequence  *)
(* of its "/"-separated segments.                                          *)
(***************************************************************************)
EXTENDS Integers, Sequences, FiniteSets, TLC

VARIABLES
    inputData,      \* parsed mixtapes.json (index.ts:126), fixed during a behaviour
    upstream,       \* what the remote API answers, fixed during a run
    files,          \* disk: output file path -> content
    ckptFile,       \* disk: checkpoint.json
    pc,             \* where the process is (the await it is suspended at)
    run,            \* number of the current run of the process (1, 2, ...)
    checkpoint,     \* main: the in-memory checkpoint object
    runningTotal,   \* main: runningTotalTracks.count
    showIndex,      \* main: showIndex
    mi,             \* main: index of the current mixtape in inputData.results
    ci,             \* main: index of the current credit in mixtape.credits
    episodes,       \* processShow: episodes (fetchAllEpisodes: allEpisodes)
    offset,         \* fetchAllEpisodes: offset
    epIdx,          \* processShow: position of the for-loop over episodes
    allTracks,      \* processShow: allTracks, a JS Set<string> in insertion order
    existingTracks, \* saveTracklist: existingTracks
    tokens,         \* content of the rate limiter's token bucket
    acquired,       \* history: tokens removed from the bucket in this run
    netLog,         \* history: requests issued by the current processShow call
    netCount,       \* history: requests issued in this run
    phase,          \* history: per credit of the catalog, its stage in this run
    failedFrom,     \* history: per credit, the stage its processing failed in
    loaded,         \* history: the checkpoint as loaded at the start of this run
    readFault,      \* history: a readable local file could not be read in this run
    everSaved,      \* history: the output writes done: show name, path, was the fetch
                    \* complete, the tracks written
    prevRun         \* history: how the runs before this one went (see RunsSoFar), the
                    \* credit a kill stopped at, the files a clean run left

vars == <<inputData, upstream, files, ckptFile, pc, run, checkpoint, runningTotal,
          showIndex, mi, ci, episodes, offset, epIdx, allTracks, existingTracks, tokens,
          acquired,
          netLog, netCount, phase, failedFrom, loaded, readFault, everSaved, prevRun>>

-----------------------------------------------------------------------------
(* Bounds of the model *)

\* Runs of the process (the first one and the restarts after it) in a behaviour.
MaxRuns == 2

\* Episode pages requested from an endpoint that never returns an empty page
\* (at least 3: the two full pages and the empty one of PagedUpstream).
MaxPages == 3

-----------------------------------------------------------------------------
(* Program constants *)

\* fetchAllEpisodes: const limit = 12
limit == 12

\* new RateLimiter({ tokensPerInterval: 5, interval: 'second' })
tokensPerInterval == 5

\* NTSScraperService.baseUrl
baseUrl == <<"https://www.nts.live/api/v2">>

\* main: const outputDir = 'nts_tracklists'
outputDir == "nts_tracklists"

-----------------------------------------------------------------------------
(* Strings *)

Range(s) == {s[i] : i \in DOMAIN s}

\* String.prototype.toLowerCase, on one character
LowerChar(c) ==
    CASE c = "A" -> "a"
      [] c = "B" -> "b"
      [] c = "G" -> "g"
      [] c = "T" -> "t"
      [] c = "U" -> "u"
      [] OTHER -> c

toLowerCase(s) == [i \in DOMAIN s |-> LowerChar(s[i])]

\* the characters the regular expression class \s matches
IsSpace(c) == c \in {" ", "\t", "\n"}

\* s.replace(/\s+/g, '_'): every maximal run of whitespace becomes one "_"
RECURSIVE ReplaceSpaceRuns(_)
ReplaceSpaceRuns(s) ==
    IF s = <<>> THEN <<>>
    ELSE IF IsSpace(Head(s))
         THEN IF Len(s) > 1 /\ IsSpace(s[2])
              THEN ReplaceSpaceRuns(Tail(s))
              ELSE <<"_">> \o ReplaceSpaceRuns(Tail(s))
         ELSE <<Head(s)>> \o ReplaceSpaceRuns(Tail(s))

\* s.replace(/\//g, '_')
ReplaceSlashes(s) == [i \in DOMAIN s |-> IF s[i] = "/" THEN "_" ELSE s[i]]

\* saveTracklist: sanitizedShowName
SanitizeShowName(showName) == ReplaceSlashes(ReplaceSpaceRuns(toLowerCase(showName)))

\* saveTracklist: filePath = path.join(outputDir, `${sanitizedShowName}_tracklist.json`)
FilePath(dir, showName) ==
    [dir |-> dir, file |-> SanitizeShowName(showName) \o <<"_tracklist.json">>]

\* main: mixtapeFolder = path.join(outputDir, mixtape.mixtape_alias)
MixtapeFolder(mixtape) == <<outputDir, mixtape.mixtape_alias>>

-----------------------------------------------------------------------------
(* JSON of a Track: the key of the deduplicating Set *)

\* JSON.stringify of a string: quoted, with " and \ escaped
RECURSIVE EscapeChars(_)
EscapeChars(s) ==
    IF s = <<>> THEN <<>>
    ELSE (IF Head(s) \in {"\"", "\\"} THEN <<"\\", Head(s)>> ELSE <<Head(s)>>)
         \o EscapeChars(Tail(s))

Quote(s) == <<"\"">> \o EscapeChars(s) \o <<"\"">>

\* s.trimEnd()
RECURSIVE TrimEnd(_)
TrimEnd(s) ==
    IF s # <<>> /\ IsSpace(s[Len(s)]) THEN TrimEnd(SubSeq(s, 1, Len(s) - 1)) ELSE s

\* mutant: the key is built from the trimmed fields
Stringify_Trimmed(track) ==
    <<"{", "\"artist\":">> \o Quote(TrimEnd(track.artist)) \o <<",", "\"title\":">>
        \o Quote(TrimEnd(track.title)) \o <<"}">>

\* JSON.stringify(track) of a track built as { artist: ..., title: ... }:
\* the keys come in insertion order, artist first
Stringify(track) ==
    <<"{", "\"artist\":">> \o Quote(track.artist) \o <<",", "\"title\":">>
        \o Quote(track.title) \o <<"}">>

\* Reads a quoted JSON string that starts at s[i] (the opening quote); the value
\* read so far is acc.  Returns the string and the position after the closing quote.
RECURSIVE ReadString(_, _, _)
ReadString(s, i, acc) ==
    IF s[i] = "\"" THEN [val |-> acc, next |-> i + 1]
    ELSE IF s[i] = "\\" THEN ReadString(s, i + 2, Append(acc, s[i + 1]))
    ELSE ReadString(s, i + 1, Append(acc, s[i]))

\* JSON.parse of a text that Stringify produced
JSONParse(s) ==
    LET a == ReadString(s, 4, <<>>)
        t == ReadString(s, a.next + 3, <<>>)
    IN  [artist |-> a.val, title |-> t.val]

\* Set.prototype.add on a Set kept in insertion order
SetAdd(set, key) == IF key \in Range(set) THEN set ELSE Append(set, key)

RECURSIVE SetAddAll(_, _)
SetAddAll(set, keys) ==
    IF keys = <<>> THEN set ELSE SetAddAll(SetAdd(set, Head(keys)), Tail(keys))

\* Array.from(allTracks).map(track => JSON.parse(track))
ParseAll(set) == [i \in DOMAIN set |-> JSONParse(set[i])]

\* fetchTracklist: results.map(track => ({ artist: track.artist, title: track.title }))
ProjectTrack(entry) == [artist |-> entry.artist, title |-> entry.title]

-----------------------------------------------------------------------------
(* Inputs: catalogs (mixtapes.json) and the upstream API they are crawled from *)

\* Strings used as show names, artists and titles
sAB == <<"A", " ", "B">>
sA_B == <<"a", "/", "b">>
sU == <<"U">>
sG == <<"G">>
sA == <<"A">>
sASp == <<"A", " ">>
sB == <<"B">>
sT == <<"T">>
sTQ == <<"T", "\"">>

\* interface Show
Show(name, path) == [name |-> name, path |-> path]

\* interface Episode, with its links
Link(rel, href) == [rel |-> rel, href |-> href]
Episode(name, links) == [name |-> name, links |-> links]

\* an entry of a tracklist response: a track and a field the crawler drops
Entry(artist, title, uid) == [artist |-> artist, title |-> title, uid |-> uid]

\* href of the tracklist of episode e of the show at showPath
EpisodeTracklistUrl(showPath, e) == baseUrl \o showPath \o <<"episodes", e, "tracklist">>

EpisodeSelfUrl(showPath, e) == baseUrl \o showPath \o <<"episodes", e>>

\* an episode that carries a tracklist link after another link
LinkedEpisode(showPath, e) ==
    Episode(<<e>>, <<Link("self", EpisodeSelfUrl(showPath, e)),
                     Link("tracklist", EpisodeTracklistUrl(showPath, e))>>)

\* an episode without a tracklist link
BareEpisode(showPath, e) == Episode(<<e>>, <<Link("self", EpisodeSelfUrl(showPath, e))>>)

\* A catalog whose first two shows sanitize to the same file name ("a_b") in the
\* same mixtape, the second of them a guest show; the third has no tracklist.
CollideCatalog ==
    [results |-> <<
        [mixtape_alias |-> "m1",
         credits |-> <<Show(sAB, <<"shows", "ab">>),
                       Show(sA_B, <<"guests", "g">>),
                       Show(sU, <<"shows", "u">>)>>] >>]

CollideUpstream ==
    [episodes |->
        (<<"shows", "ab">> :> << <<LinkedEpisode(<<"shows", "ab">>, "e1"),
                                  LinkedEpisode(<<"shows", "ab">>, "e2")>> >>)
        @@ (<<"shows", "u">> :> << <<BareEpisode(<<"shows", "u">>, "e1")>> >>),
     tracklists |->
        (EpisodeTracklistUrl(<<"shows", "ab">>, "e1")
            :> <<Entry(sA, sT, 1), Entry(sA, sT, 2)>>)
        @@ (EpisodeTracklistUrl(<<"shows", "ab">>, "e2")
            :> <<Entry(sASp, sT, 3), Entry(sA, sT, 4)>>)
        @@ (baseUrl \o <<"guests", "g", "tracklist">>
            :> <<Entry(sB, sTQ, 5), Entry(sA, sT, 6)>>),
     slow |-> FALSE,
     endless |-> {}]

\* The same upstream some time later: the second episode of /shows/ab has a new
\* tracklist, which no longer lists ("A ", "T")
CollideUpstreamLater ==
    [episodes |-> CollideUpstream.episodes,
     tracklists |->
        (EpisodeTracklistUrl(<<"shows", "ab">>, "e2") :> <<Entry(sB, sT, 7)>>)
        @@ CollideUpstream.tracklists,
     slow |-> FALSE,
     endless |-> {}]

\* A catalog that credits the same show under two mixtapes, after a guest show.
DupCatalog ==
    [results |-> <<
        [mixtape_alias |-> "m1",
         credits |-> <<Show(sG, <<"guests", "g">>), Show(sAB, <<"shows", "ab">>)>>],
        [mixtape_alias |-> "m2",
         credits |-> <<Show(sAB, <<"shows", "ab">>)>>] >>]

\* A catalog of one show with two full pages of episodes; two of the 24 episodes
\* carry a tracklist.
PagedCatalog ==
    [results |-> <<
        [mixtape_alias |-> "m1", credits |-> <<Show(sT, <<"shows", "t">>)>>] >>]

PagedEpisode(n) ==
    IF n \in {1, limit + 1}
    THEN LinkedEpisode(<<"shows", "t">>, ToString(n))
    ELSE BareEpisode(<<"shows", "t">>, ToString(n))

PagedUpstream ==
    [episodes |->
        (<<"shows", "t">> :> << [j \in 1..limit |-> PagedEpisode(j)],
                                [j \in 1..limit |-> PagedEpisode(limit + j)] >>),
     tracklists |->
        (EpisodeTracklistUrl(<<"shows", "t">>, ToString(1))
            :> <<Entry(sA, sT, 1), Entry(sB, sT, 2)>>)
        @@ (EpisodeTracklistUrl(<<"shows", "t">>, ToString(limit + 1))
            :> <<Entry(sB, sT, 3)>>),
     slow |-> FALSE,
     endless |-> {}]

\* The same upstream answering slowly: the time a request, the 200 ms delay or a
\* file operation takes lets the token bucket refill between two acquisitions
PagedUpstreamSlow == [PagedUpstream EXCEPT !.slow = TRUE]

\* A catalog whose first show has an episode endpoint that never returns an empty
\* page: past its first page it repeats a page of one episode at every offset
EndlessCatalog ==
    [results |-> <<
        [mixtape_alias |-> "m1",
         credits |-> <<Show(sB, <<"shows", "loop">>), Show(sG, <<"guests", "g">>)>>] >>]

EndlessUpstream ==
    [episodes |->
        (<<"shows", "loop">> :> << <<LinkedEpisode(<<"shows", "loop">>, "e1")>> >>),
     tracklists |->
        (EpisodeTracklistUrl(<<"shows", "loop">>, "e1") :> <<Entry(sA, sT, 1)>>)
        @@ (baseUrl \o <<"guests", "g", "tracklist">> :> <<Entry(sB, sTQ, 5)>>),
     slow |-> FALSE,
     endless |-> {<<"shows", "loop">>}]

Scenarios ==
    { [inputData |-> EndlessCatalog, upstream |-> EndlessUpstream],
      [inputData |-> CollideCatalog, upstream |-> CollideUpstream],
      [inputData |-> DupCatalog, upstream |-> CollideUpstream],
      [inputData |-> PagedCatalog, upstream |-> PagedUpstream],
      [inputData |-> PagedCatalog, upstream |-> PagedUpstreamSlow] }

\* what an upstream may have become by the time of a later run
LaterUpstreams(up) == IF up = CollideUpstream THEN {CollideUpstreamLater} ELSE {}

\* GET {base}{showPath}/episodes?offset=O&limit=L: the page of the show that starts
\* at that offset; past the last page it is empty, or the last page again when the
\* endpoint is an endless one
EpisodesResponse(up, showPath, o, l) ==
    LET pages == up.episodes[showPath]
        n == (o \div l) + 1
    IN  IF n \in DOMAIN pages THEN pages[n]
        ELSE IF showPath \in up.endless THEN pages[Len(pages)]
        ELSE <<>>

\* whether the upstream answers a request for this show's episodes at all
KnownShow(up, showPath) == showPath \in DOMAIN up.episodes

\* whether the upstream answers GET tracklistUrl
KnownTracklist(up, href) == href \in DOMAIN up.tracklists

-----------------------------------------------------------------------------
(* The catalog *)

\* main: totalShows = inputData.results.reduce((acc, mixtape) => acc + mixtape.credits.length, 0)
RECURSIVE SumCredits(_)
SumCredits(results) ==
    IF results = <<>> THEN 0 ELSE Len(Head(results).credits) + SumCredits(Tail(results))

totalShows == SumCredits(inputData.results)

\* values of showIndex that stand for a credit
ShowIndexes == 0 .. (totalShows - 1)

\* the credit the two for-loops of main handle when showIndex is i
RECURSIVE CreditAt(_, _, _)
CreditAt(results, m, i) ==
    IF i < Len(results[m].credits)
    THEN [mixtape |-> results[m], credit |-> results[m].credits[i + 1]]
    ELSE CreditAt(results, m + 1, i - Len(results[m].credits))

CreditOf(i) == CreditAt(inputData.results, 1, i).credit

MixtapeOf(i) == CreditAt(inputData.results, 1, i).mixtape

\* the output file a credit is saved to: saveTracklist(show.name, ..., mixtapeFolder)
OutputPath(i) == FilePath(MixtapeFolder(MixtapeOf(i)), CreditOf(i).name)

Paths == {OutputPath(i) : i \in ShowIndexes}

Names == {CreditOf(i).name : i \in ShowIndexes}

\* main: the mixtape and the credit of the current iteration
mixtape == inputData.results[mi]

credit == mixtape.credits[ci]

-----------------------------------------------------------------------------
(* Disk *)

Absent == [st |-> "absent", data |-> <<>>]

Corrupt == [st |-> "corrupt", data |-> <<>>]

Content(data) == [st |-> "ok", data |-> data]

\* what a failed fs.writeFile may leave behind: the old content, or a truncated file
WriteFailureLeaves(old) == {old, Corrupt}

\* readFile + JSON.parse inside try/catch: the content, or the fallback when the
\* file is absent, unreadable or does not parse
ReadOr(file, fallback) == IF file.st = "ok" THEN file.data ELSE fallback

\* the checkpoint object: show name -> boolean
EmptyCheckpoint == <<>>

\* !checkpoint[credit.name] is false
IsDone(cp, name) == name \in DOMAIN cp /\ cp[name]

\* checkpoint[show.name] = true
MarkDone(cp, name) == [n \in DOMAIN cp \cup {name} |-> IF n = name THEN TRUE ELSE cp[n]]

-----------------------------------------------------------------------------
(* Initial state *)

NoShow == [i \in ShowIndexes |-> "Pending"]

NoFailure == [i \in ShowIndexes |-> "none"]

NoPrevRun == [kind |-> "none", at |-> 0, files |-> <<>>]

\* the locals of main as declared at index.ts:133-136, and no processShow call
FreshMemory ==
    /\ checkpoint' = EmptyCheckpoint
    /\ runningTotal' = 0
    /\ showIndex' = 0
    /\ mi' = 0
    /\ ci' = 0

NoCall ==
    /\ episodes' = <<>>
    /\ offset' = 0
    /\ epIdx' = 0
    /\ allTracks' = <<>>
    /\ existingTracks' = <<>>
    /\ netLog' = <<>>

Init ==
    /\ \E sc \in Scenarios :
         /\ inputData = sc.inputData
         /\ upstream = sc.upstream
    /\ files = [p \in Paths |-> Absent]
    /\ ckptFile = Absent
    /\ pc = "start"
    /\ run = 1
    /\ checkpoint = EmptyCheckpoint
    /\ runningTotal = 0
    /\ showIndex = 0
    /\ mi = 0
    /\ ci = 0
    /\ episodes = <<>>
    /\ offset = 0
    /\ epIdx = 0
    /\ allTracks = <<>>
    /\ existingTracks = <<>>
    /\ tokens = tokensPerInterval
    /\ acquired = 0
    /\ netLog = <<>>
    /\ netCount = 0
    /\ phase = NoShow
    /\ failedFrom = NoFailure
    /\ loaded = EmptyCheckpoint
    /\ readFault = FALSE
    /\ everSaved = {}
    /\ prevRun = NoPrevRun

-----------------------------------------------------------------------------
(* What the upstream holds, stated independently of the crawl *)

\* the non-empty pages a show's episode endpoint returns before its first empty page
RECURSIVE LeadingPages(_)
LeadingPages(pages) ==
    IF pages = <<>> \/ Head(pages) = <<>> THEN <<>>
    ELSE <<Head(pages)>> \o LeadingPages(Tail(pages))

RECURSIVE Concat(_)
Concat(seqs) == IF seqs = <<>> THEN <<>> ELSE Head(seqs) \o Concat(Tail(seqs))

\* the episodes of a non-guest show, in page order
UpstreamEpisodes(show) == Concat(LeadingPages(upstream.episodes[show.path]))

\* the upstream serves the path as a guest show: "/guests/" is part of it
GuestPath(showPath) == \E i \in 1 .. (Len(showPath) - 1) : showPath[i] = "guests"

\* the tracklist URLs of a show: of its episodes, or its own when it is a guest show
UpstreamTracklistUrls(show) ==
    IF GuestPath(show.path)
    THEN {baseUrl \o show.path \o <<"tracklist">>}
    ELSE {l.href : l \in {k \in UNION {Range(e.links) : e \in Range(UpstreamEpisodes(show))} :
                                k.rel = "tracklist"}}

\* the distinct (artist, title) pairs of all tracklists of a show
UpstreamTracks(show) ==
    UNION { {[artist |-> e.artist, title |-> e.title] : e \in Range(upstream.tracklists[u])}
            : u \in UpstreamTracklistUrls(show) }

\* the tracks held by a JS Set of fingerprints
TracksOf(set) == {JSONParse(k) : k \in Range(set)}

\* checkpoint.json marks the show
MarkedOnDisk(name) == ckptFile.st = "ok" /\ IsDone(ckptFile.data, name)

\* a sequence holds no element twice
NoDuplicates(seq) == \A i, j \in DOMAIN seq : i # j => seq[i] # seq[j]

\* a processShow call is under way and has not failed
InCall == pc \in {"ep_acquire", "ep_get", "tl_acquire", "tl_get", "save_read", "save_write", "mark"}

Fetching == pc \in {"ep_acquire", "ep_get", "tl_acquire", "tl_get"}

\* the fetch of the current show is over: every page and every tracklist was fetched
FetchOver == pc \in {"save_read", "save_write", "mark"}

-----------------------------------------------------------------------------
(* Control flow of main *)

\* the head of "for (const mixtape of inputData.results)" for the m-th mixtape:
\* the mkdir of its folder, or the end of main after the last one
EnterMixtape(m) ==
    /\ pc' = IF m <= Len(inputData.results) THEN "mkdir" ELSE "done"
    /\ mi' = m
    /\ ci' = 0

\* showIndex++ and the next iteration of "for (const credit of mixtape.credits)"
NextCredit ==
    /\ showIndex' = showIndex + 1
    /\ IF ci < Len(mixtape.credits)
       THEN pc' = "credit" /\ ci' = ci + 1 /\ mi' = mi
       ELSE EnterMixtape(mi + 1)

\* a processShow call is over: its locals are gone
ReturnToMain ==
    /\ episodes' = <<>>
    /\ offset' = 0
    /\ epIdx' = 0
    /\ allTracks' = <<>>
    /\ existingTracks' = <<>>
    /\ NextCredit

\* mutant: processShow has no try/catch, the error ends main
CatchError_Uncaught(stage) ==
    /\ phase' = [phase EXCEPT ![showIndex] = "Failed"]
    /\ failedFrom' = [failedFrom EXCEPT ![showIndex] = stage]
    /\ pc' = "aborted"
    /\ UNCHANGED <<showIndex, mi, ci, episodes, offset, epIdx, allTracks, existingTracks>>

\* the catch block of processShow: the error is logged and the call returns
CatchError(stage) ==
    /\ phase' = [phase EXCEPT ![showIndex] = "Failed"]
    /\ failedFrom' = [failedFrom EXCEPT ![showIndex] = stage]
    /\ ReturnToMain

Running == pc \notin {"done", "aborted", "crashed"}

-----------------------------------------------------------------------------
(* main, index.ts:125-159 *)

\* lines 136-142: load checkpoint.json, an empty object when it cannot be read or
\* parsed; then the first iteration of the mixtape loop
LoadCheckpoint ==
    /\ pc = "start"
    /\ \E cp \in {ReadOr(ckptFile, EmptyCheckpoint), EmptyCheckpoint} :
         /\ checkpoint' = cp
         /\ loaded' = cp
         /\ readFault' = (readFault \/ cp # ReadOr(ckptFile, EmptyCheckpoint))
    /\ EnterMixtape(1)
    /\ UNCHANGED <<inputData, upstream, files, ckptFile, run, runningTotal, showIndex,
                   episodes, offset, epIdx, allTracks, existingTracks, tokens, acquired,
                   netLog, netCount, phase, failedFrom, everSaved, prevRun>>

\* lines 145-146: mkdir of the mixtape folder, then the first credit of the mixtape
MakeFolder ==
    /\ pc = "mkdir"
    /\ IF Len(mixtape.credits) > 0
       THEN pc' = "credit" /\ ci' = 1 /\ mi' = mi
       ELSE EnterMixtape(mi + 1)
    /\ UNCHANGED <<inputData, upstream, files, ckptFile, run, checkpoint, runningTotal,
                   showIndex, episodes, offset, epIdx, allTracks, existingTracks, tokens,
                   acquired, netLog, netCount, phase, failedFrom, loaded, everSaved,
                   prevRun, readFault>>

\* line 146 throws: main rejects and the process ends with the error printed
MakeFolderFails ==
    /\ pc = "mkdir"
    /\ pc' = "aborted"
    /\ UNCHANGED <<inputData, upstream, files, ckptFile, run, checkpoint, runningTotal,
                   showIndex, mi, ci, episodes, offset, epIdx, allTracks, existingTracks,
                   tokens, acquired, netLog, netCount, phase, failedFrom, loaded, everSaved,
                   prevRun, readFault>>

\* lines 149-154, else branch: the show is marked in the checkpoint and is skipped
SkipShow ==
    /\ pc = "credit"
    /\ IsDone(checkpoint, credit.name)
    /\ phase' = [phase EXCEPT ![showIndex] = "Skipped"]
    /\ NextCredit
    /\ UNCHANGED <<inputData, upstream, files, ckptFile, run, checkpoint, runningTotal,
                   episodes, offset, epIdx, allTracks, existingTracks, tokens, acquired,
                   netLog, netCount, failedFrom, loaded, readFault, everSaved, prevRun>>

-----------------------------------------------------------------------------
(* NTSScraperService, index.ts:21-61 *)

\* mutant: the test is for '/guest/'
IsGuestShow_Singular(showPath) == \E i \in 1 .. (Len(showPath) - 1) : showPath[i] = "guest"

\* show.path.includes('/guests/'): a segment "guests" with a segment after it
IsGuestShow(showPath) == \E i \in 1 .. (Len(showPath) - 1) : showPath[i] = "guests"

\* fetchAllEpisodes, lines 26-29: the one synthetic episode of a guest show
GuestEpisodes(showPath) ==
    << Episode(<<>>, <<Link("tracklist", baseUrl \o showPath \o <<"tracklist">>)>>) >>

\* episode.links.find(link => link.rel === 'tracklist')?.href, the empty URL
\* standing for undefined
RECURSIVE TracklistHref(_)
TracklistHref(links) ==
    IF links = <<>> THEN <<>>
    ELSE IF Head(links).rel = "tracklist" THEN Head(links).href
    ELSE TracklistHref(Tail(links))

\* the for-loop of processShow from position i on: the first episode with a
\* truthy tracklistUrl, Len(eps) + 1 when the loop ends without another request
RECURSIVE NextWithTracklist(_, _)
NextWithTracklist(eps, i) ==
    IF i > Len(eps) THEN i
    ELSE IF TracklistHref(eps[i].links) # <<>> THEN i
    ELSE NextWithTracklist(eps, i + 1)

\* the for-loop of processShow resumes at episode i: it stops at the next
\* fetchTracklist call, or ends and saveTracklist is called
ResumeLoop(eps, i) ==
    LET j == NextWithTracklist(eps, i)
    IN  /\ epIdx' = j
        /\ pc' = IF j <= Len(eps) THEN "tl_acquire" ELSE "save_read"

\* the episodes request of line 37-38
EpisodesRequest(showPath, o) ==
    [kind |-> "episodes", url |-> baseUrl \o showPath \o <<"episodes">>,
     offset |-> o, limit |-> limit]

\* the tracklist request of line 55
TracklistRequest(href) == [kind |-> "tracklist", url |-> href, offset |-> 0, limit |-> 0]

\* axios.get is called: the request goes out
Issue(request) ==
    /\ netLog' = Append(netLog, request)
    /\ netCount' = netCount + 1

\* the tokens the bucket may have dripped since the last call: any number when
\* the upstream answers slowly; otherwise no time passes unless the caller has to
\* wait for a token
Drips == IF upstream.slow THEN 0 .. tokensPerInterval ELSE IF tokens = 0 THEN {1} ELSE {0}

\* rateLimiter.removeTokens(1): the bucket drips what the elapsed time d gives,
\* never above its size, and one token is taken once there is one
RemoveTokens ==
    /\ \E d \in Drips :
         LET content == IF tokens + d > tokensPerInterval THEN tokensPerInterval
                        ELSE tokens + d
         IN  /\ content >= 1
             /\ tokens' = content - 1
    /\ acquired' = acquired + 1

\* fetchAllEpisodes, line 36: await this.rateLimiter.removeTokens(1)
EpisodesAcquire ==
    /\ pc = "ep_acquire"
    /\ RemoveTokens
    /\ pc' = "ep_get"
    /\ UNCHANGED <<inputData, upstream, files, ckptFile, run, checkpoint, runningTotal,
                   showIndex, mi, ci, episodes, offset, epIdx, allTracks, existingTracks,
                   netLog, netCount, phase, failedFrom, loaded, everSaved, prevRun, readFault>>

\* mutant: a page shorter than limit is taken for the last one
EpisodesPage_StopsAtShortPage ==
    /\ pc = "ep_get"
    /\ KnownShow(upstream, credit.path)
    /\ offset < MaxPages * limit
    /\ Issue(EpisodesRequest(credit.path, offset))
    /\ LET page == EpisodesResponse(upstream, credit.path, offset, limit)
       IN  IF Len(page) < limit
           THEN /\ ResumeLoop(episodes \o page, 1)
                /\ episodes' = episodes \o page
                /\ UNCHANGED offset
           ELSE /\ episodes' = episodes \o page
                /\ offset' = offset + limit
                /\ pc' = "ep_acquire"
                /\ epIdx' = epIdx
    /\ UNCHANGED <<inputData, upstream, files, ckptFile, run, checkpoint, runningTotal,
                   showIndex, mi, ci, allTracks, existingTracks, tokens, acquired, phase,
                   failedFrom, loaded, readFault, everSaved, prevRun>>

\* mutant: a page is put in front of the episodes fetched so far
EpisodesPage_Prepends ==
    /\ pc = "ep_get"
    /\ KnownShow(upstream, credit.path)
    /\ offset < MaxPages * limit
    /\ Issue(EpisodesRequest(credit.path, offset))
    /\ LET page == EpisodesResponse(upstream, credit.path, offset, limit)
       IN  IF Len(page) = 0
           THEN /\ ResumeLoop(episodes, 1)
                /\ UNCHANGED <<episodes, offset>>
           ELSE /\ episodes' = page \o episodes
                /\ offset' = offset + limit
                /\ pc' = "ep_acquire"
                /\ epIdx' = epIdx
    /\ UNCHANGED <<inputData, upstream, files, ckptFile, run, checkpoint, runningTotal,
                   showIndex, mi, ci, allTracks, existingTracks, tokens, acquired, phase,
                   failedFrom, loaded, readFault, everSaved, prevRun>>

\* fetchAllEpisodes, lines 37-47: one page is requested and answered; an empty page
\* ends the loop and fetchAllEpisodes returns to processShow (lines 75-79)
EpisodesPage ==
    /\ pc = "ep_get"
    /\ KnownShow(upstream, credit.path)
    /\ offset < MaxPages * limit
    /\ Issue(EpisodesRequest(credit.path, offset))
    /\ LET page == EpisodesResponse(upstream, credit.path, offset, limit)
       IN  IF Len(page) = 0
           THEN /\ ResumeLoop(episodes, 1)
                /\ UNCHANGED <<episodes, offset>>
           ELSE /\ episodes' = episodes \o page
                /\ offset' = offset + limit
                /\ pc' = "ep_acquire"
                /\ epIdx' = epIdx
    /\ UNCHANGED <<inputData, upstream, files, ckptFile, run, checkpoint, runningTotal,
                   showIndex, mi, ci, allTracks, existingTracks, tokens, acquired, phase,
                   failedFrom, loaded, readFault, everSaved, prevRun>>

\* line 38 throws (network error, non-2xx, malformed payload): processShow catches
EpisodesPageFails ==
    /\ pc = "ep_get"
    /\ Issue(EpisodesRequest(credit.path, offset))
    /\ CatchError("Fetching")
    /\ UNCHANGED <<inputData, upstream, files, ckptFile, run, checkpoint, runningTotal,
                   tokens, acquired, loaded, everSaved, prevRun, readFault>>

\* mutant: fetchTracklist does not wait for the rate limiter
TracklistAcquire_Free ==
    /\ pc = "tl_acquire"
    /\ pc' = "tl_get"
    /\ UNCHANGED <<inputData, upstream, files, ckptFile, run, checkpoint, runningTotal,
                   showIndex, mi, ci, episodes, offset, epIdx, allTracks, existingTracks,
                   tokens, acquired, netLog, netCount, phase, failedFrom, loaded,
                   everSaved, prevRun, readFault>>

\* fetchTracklist, line 54: await this.rateLimiter.removeTokens(1)
TracklistAcquire ==
    /\ pc = "tl_acquire"
    /\ RemoveTokens
    /\ pc' = "tl_get"
    /\ UNCHANGED <<inputData, upstream, files, ckptFile, run, checkpoint, runningTotal,
                   showIndex, mi, ci, episodes, offset, epIdx, allTracks, existingTracks,
                   netLog, netCount, phase, failedFrom, loaded, everSaved, prevRun, readFault>>

\* the tracks of a response as fetchTracklist returns them (lines 56-59)
FetchedTracks(up, href) == [i \in DOMAIN up.tracklists[href] |-> ProjectTrack(up.tracklists[href][i])]

\* tracklist.forEach(track => allTracks.add(JSON.stringify(track)))
AddTracks(set, tracks) == SetAddAll(set, [i \in DOMAIN tracks |-> Stringify(tracks[i])])

\* mutant: the tracks fetched so far are written to the output file after every
\* tracklist
TracklistPage_SavesEach ==
    /\ pc = "tl_get"
    /\ LET href == TracklistHref(episodes[epIdx].links)
           filePath == FilePath(MixtapeFolder(mixtape), credit.name)
       IN  /\ KnownTracklist(upstream, href)
           /\ Issue(TracklistRequest(href))
           /\ allTracks' = AddTracks(allTracks, FetchedTracks(upstream, href))
           /\ files' = [files EXCEPT ![filePath] =
                 Content(ParseAll(AddTracks(allTracks, FetchedTracks(upstream, href))))]
    /\ ResumeLoop(episodes, epIdx + 1)
    /\ UNCHANGED <<inputData, upstream, ckptFile, run, checkpoint, runningTotal,
                   showIndex, mi, ci, episodes, offset, existingTracks, tokens, acquired,
                   phase, failedFrom, loaded, readFault, everSaved, prevRun>>

\* fetchTracklist, lines 55-59, and processShow, lines 82-84: the tracklist of the
\* current episode is fetched and added to allTracks; the for-loop goes on
TracklistPage ==
    /\ pc = "tl_get"
    /\ LET href == TracklistHref(episodes[epIdx].links)
       IN  /\ KnownTracklist(upstream, href)
           /\ Issue(TracklistRequest(href))
           /\ allTracks' = AddTracks(allTracks, FetchedTracks(upstream, href))
    /\ ResumeLoop(episodes, epIdx + 1)
    /\ UNCHANGED <<inputData, upstream, files, ckptFile, run, checkpoint, runningTotal,
                   showIndex, mi, ci, episodes, offset, existingTracks, tokens, acquired,
                   phase, failedFrom, loaded, everSaved, prevRun, readFault>>

\* line 55 throws: processShow catches
TracklistPageFails ==
    /\ pc = "tl_get"
    /\ Issue(TracklistRequest(TracklistHref(episodes[epIdx].links)))
    /\ CatchError("Fetching")
    /\ UNCHANGED <<inputData, upstream, files, ckptFile, run, checkpoint, runningTotal,
                   tokens, acquired, loaded, everSaved, prevRun, readFault>>

-----------------------------------------------------------------------------
(* ShowProcessor, index.ts:63-123 *)

\* mutant: main calls processShow whatever the checkpoint says
ProcessShow_Unconditional ==
    /\ pc = "credit"
    /\ phase' = [phase EXCEPT ![showIndex] = "Fetching"]
    /\ netLog' = <<>>
    /\ allTracks' = <<>>
    /\ offset' = 0
    /\ IF IsGuestShow(credit.path)
       THEN /\ episodes' = GuestEpisodes(credit.path)
            /\ ResumeLoop(GuestEpisodes(credit.path), 1)
       ELSE /\ episodes' = <<>>
            /\ epIdx' = 0
            /\ pc' = "ep_acquire"
    /\ UNCHANGED <<inputData, upstream, files, ckptFile, run, checkpoint, runningTotal,
                   showIndex, mi, ci, existingTracks, tokens, acquired, netCount,
                   failedFrom, loaded, readFault, everSaved, prevRun>>

\* lines 149-150 and 72-74, with fetchAllEpisodes up to its first await: the show
\* is not marked, processShow is called; a guest show gets its synthetic episode
\* at once, any other show starts paginating at offset 0
ProcessShow ==
    /\ pc = "credit"
    /\ ~IsDone(checkpoint, credit.name)
    /\ phase' = [phase EXCEPT ![showIndex] = "Fetching"]
    /\ netLog' = <<>>
    /\ allTracks' = <<>>
    /\ offset' = 0
    /\ IF IsGuestShow(credit.path)
       THEN /\ episodes' = GuestEpisodes(credit.path)
            /\ ResumeLoop(GuestEpisodes(credit.path), 1)
       ELSE /\ episodes' = <<>>
            /\ epIdx' = 0
            /\ pc' = "ep_acquire"
    /\ UNCHANGED <<inputData, upstream, files, ckptFile, run, checkpoint, runningTotal,
                   showIndex, mi, ci, existingTracks, tokens, acquired, netCount,
                   failedFrom, loaded, everSaved, prevRun, readFault>>

\* mutant: only the tracks the file does not hold yet are written
MergeTracks_NewOnly(existing, tracks) ==
    ParseAll(SelectSeq(AddTracks(<<>>, tracks), LAMBDA k : k \notin Range(AddTracks(<<>>, existing))))

\* saveTracklist, lines 116-119: the persisted tracks, then the fetched ones, in one Set
MergeTracks(existing, tracks) == ParseAll(AddTracks(AddTracks(<<>>, existing), tracks))

\* processShow, line 88: deduplicatedTracks
DeduplicatedTracks(set) == ParseAll(set)

\* mutant: a file that cannot be read or parsed is an error of the show
SaveRead_Throws ==
    /\ pc = "save_read"
    /\ LET file == files[FilePath(MixtapeFolder(mixtape), credit.name)]
       IN  IF file.st = "ok"
           THEN /\ existingTracks' = file.data
                /\ phase' = [phase EXCEPT ![showIndex] = "Merging"]
                /\ pc' = "save_write"
                /\ UNCHANGED <<showIndex, mi, ci, episodes, offset, epIdx, allTracks,
                               failedFrom>>
           ELSE /\ CatchError("Merging")
    /\ UNCHANGED <<inputData, upstream, files, ckptFile, run, checkpoint, runningTotal,
                   tokens, acquired, netLog, netCount, loaded, readFault, everSaved,
                   prevRun>>

\* saveTracklist, lines 104-114: the existing file is read, [] when that fails
SaveRead ==
    /\ pc = "save_read"
    /\ LET onDisk == ReadOr(files[FilePath(MixtapeFolder(mixtape), credit.name)], <<>>)
       IN  \E old \in {onDisk, <<>>} :
              /\ existingTracks' = old
              /\ readFault' = (readFault \/ old # onDisk)
    /\ phase' = [phase EXCEPT ![showIndex] = "Merging"]
    /\ pc' = "save_write"
    /\ UNCHANGED <<inputData, upstream, files, ckptFile, run, checkpoint, runningTotal,
                   showIndex, mi, ci, episodes, offset, epIdx, allTracks, tokens, acquired,
                   netLog, netCount, failedFrom, loaded, everSaved, prevRun>>

\* mutant: the checkpoint is persisted together with the output
SaveWrite_MarksFirst ==
    /\ pc = "save_write"
    /\ LET filePath == FilePath(MixtapeFolder(mixtape), credit.name)
       IN  /\ files' = [files EXCEPT ![filePath] =
                            Content(MergeTracks(existingTracks, DeduplicatedTracks(allTracks)))]
           /\ everSaved' = everSaved \cup
                  {[name |-> credit.name, path |-> filePath,
                    complete |-> (TracksOf(allTracks) = UpstreamTracks(credit)),
                    tracks |-> Range(MergeTracks(existingTracks,
                                                 DeduplicatedTracks(allTracks)))]}
    /\ ckptFile' = Content(MarkDone(checkpoint, credit.name))
    /\ phase' = [phase EXCEPT ![showIndex] = "Persisted"]
    /\ pc' = "mark"
    /\ UNCHANGED <<inputData, upstream, run, checkpoint, runningTotal, showIndex,
                   mi, ci, episodes, offset, epIdx, allTracks, existingTracks, tokens,
                   acquired, netLog, netCount, failedFrom, loaded, readFault, prevRun>>

\* saveTracklist, lines 116-121: the merged set overwrites the file
SaveWrite ==
    /\ pc = "save_write"
    /\ LET filePath == FilePath(MixtapeFolder(mixtape), credit.name)
       IN  /\ files' = [files EXCEPT ![filePath] =
                            Content(MergeTracks(existingTracks, DeduplicatedTracks(allTracks)))]
           /\ everSaved' = everSaved \cup
                  {[name |-> credit.name, path |-> filePath,
                    complete |-> (TracksOf(allTracks) = UpstreamTracks(credit)),
                    tracks |-> Range(MergeTracks(existingTracks,
                                                 DeduplicatedTracks(allTracks)))]}
    /\ phase' = [phase EXCEPT ![showIndex] = "Persisted"]
    /\ pc' = "mark"
    /\ UNCHANGED <<inputData, upstream, ckptFile, run, checkpoint, runningTotal, showIndex,
                   mi, ci, episodes, offset, epIdx, allTracks, existingTracks, tokens,
                   acquired, netLog, netCount, failedFrom, loaded, prevRun, readFault>>

\* mutant: the failure of line 120 is swallowed and processShow goes on
SaveWriteFails_Swallowed ==
    /\ pc = "save_write"
    /\ LET filePath == FilePath(MixtapeFolder(mixtape), credit.name)
       IN  \E left \in WriteFailureLeaves(files[filePath]) :
              files' = [files EXCEPT ![filePath] = left]
    /\ phase' = [phase EXCEPT ![showIndex] = "Persisted"]
    /\ pc' = "mark"
    /\ UNCHANGED <<inputData, upstream, ckptFile, run, checkpoint, runningTotal, showIndex,
                   mi, ci, episodes, offset, epIdx, allTracks, existingTracks, tokens,
                   acquired, netLog, netCount, failedFrom, loaded, readFault, everSaved,
                   prevRun>>

\* line 120 throws: processShow catches
SaveWriteFails ==
    /\ pc = "save_write"
    /\ LET filePath == FilePath(MixtapeFolder(mixtape), credit.name)
       IN  \E left \in WriteFailureLeaves(files[filePath]) :
              files' = [files EXCEPT ![filePath] = left]
    /\ CatchError("Merging")
    /\ UNCHANGED <<inputData, upstream, ckptFile, run, checkpoint, runningTotal, tokens,
                   acquired, netLog, netCount, loaded, everSaved, prevRun, readFault>>

\* processShow, line 91: trackCount
TrackCount(set) == Len(DeduplicatedTracks(set))

\* processShow, lines 91-97: the running total grows by trackCount, the show is
\* marked in the checkpoint object and checkpoint.json is rewritten
MarkAndPersist ==
    /\ pc = "mark"
    /\ runningTotal' = runningTotal + TrackCount(allTracks)
    /\ checkpoint' = MarkDone(checkpoint, credit.name)
    /\ ckptFile' = Content(MarkDone(checkpoint, credit.name))
    /\ phase' = [phase EXCEPT ![showIndex] = "Checkpointed"]
    /\ ReturnToMain
    /\ UNCHANGED <<inputData, upstream, files, run, tokens, acquired, netLog, netCount,
                   failedFrom, loaded, everSaved, prevRun, readFault>>

\* line 97 throws after lines 91-96 have run: processShow catches
PersistFails ==
    /\ pc = "mark"
    /\ runningTotal' = runningTotal + TrackCount(allTracks)
    /\ checkpoint' = MarkDone(checkpoint, credit.name)
    /\ \E left \in WriteFailureLeaves(ckptFile) : ckptFile' = left
    /\ CatchError("Persisted")
    /\ UNCHANGED <<inputData, upstream, files, run, tokens, acquired, netLog, netCount,
                   loaded, everSaved, prevRun, readFault>>

-----------------------------------------------------------------------------
(* The environment: the process is killed; the operator starts it again,   *)
(* with checkpoint.json kept or removed                                    *)

Crash ==
    /\ Running
    /\ pc' = "crashed"
    /\ FreshMemory
    /\ NoCall
    /\ UNCHANGED <<inputData, upstream, files, ckptFile, run, tokens, acquired, netCount,
                   phase, failedFrom, loaded, everSaved, prevRun, readFault>>

\* What the runs so far amount to when the current one has ended: "clean" when
\* every run so far went through the whole catalog with no failure, "killed"
\* when the only incident so far is that this run was killed between the write
\* of a show's output and the write of the checkpoint
RunsSoFar ==
    IF prevRun.kind \in {"none", "clean"} /\ ~readFault
          /\ \A i \in ShowIndexes : phase[i] # "Failed"
    THEN IF pc = "done" THEN "clean"
         ELSE IF pc = "crashed" /\ \E i \in ShowIndexes : phase[i] = "Persisted"
              THEN "killed"
              ELSE "other"
    ELSE "other"

\* the process is started again: main runs up to its first await; kind is what
\* the runs so far amount to
StartAgain(kind) ==
    /\ ~Running
    /\ run < MaxRuns
    /\ run' = run + 1
    /\ pc' = "start"
    /\ FreshMemory
    /\ NoCall
    /\ tokens' = tokensPerInterval
    /\ acquired' = 0
    /\ netCount' = 0
    /\ phase' = NoShow
    /\ failedFrom' = NoFailure
    /\ loaded' = EmptyCheckpoint
    /\ readFault' = FALSE
    /\ prevRun' = [kind |-> kind,
                   at |-> IF kind = "killed"
                          THEN CHOOSE i \in ShowIndexes : phase[i] = "Persisted"
                          ELSE 0,
                   files |-> IF kind = "clean" THEN files ELSE <<>>]
    /\ UNCHANGED <<inputData, files, everSaved>>

\* the operator runs the crawler again, checkpoint.json kept
Restart ==
    /\ StartAgain(RunsSoFar)
    /\ UNCHANGED <<upstream, ckptFile>>

\* the operator removes checkpoint.json and runs the crawler again
RestartWithoutCheckpoint ==
    /\ StartAgain(RunsSoFar)
    /\ ckptFile # Absent
    /\ ckptFile' = Absent
    /\ UNCHANGED upstream

\* the crawler is run again after the upstream has changed
RestartAfterUpstreamChange ==
    /\ StartAgain("other")
    /\ \E up \in LaterUpstreams(upstream) : upstream' = up
    /\ UNCHANGED ckptFile

Next ==
    \/ LoadCheckpoint
    \/ MakeFolder
    \/ MakeFolderFails
    \/ SkipShow
    \/ ProcessShow
    \/ EpisodesAcquire
    \/ EpisodesPage
    \/ EpisodesPageFails
    \/ TracklistAcquire
    \/ TracklistPage
    \/ TracklistPageFails
    \/ SaveRead
    \/ SaveWrite
    \/ SaveWriteFails
    \/ MarkAndPersist
    \/ PersistFails
    \/ Crash
    \/ Restart
    \/ RestartWithoutCheckpoint
    \/ RestartAfterUpstreamChange

Spec == Init /\ [][Next]_vars

\* The process is not suspended for ever at an await of fetchAllEpisodes: the rate
\* limiter eventually grants the token and the request is eventually answered or
\* fails
FairSpec ==
    /\ Spec
    /\ WF_vars(EpisodesAcquire)
    /\ WF_vars(EpisodesPage \/ EpisodesPageFails)

-----------------------------------------------------------------------------
(* C1 *)

C1_Marked(cp, ever, fs) ==
    \A n \in DOMAIN cp : cp[n] =>
        \E e \in ever : e.name = n /\ e.complete /\ fs[e.path] # Absent

C1_Inv == ckptFile.st = "ok" => C1_Marked(ckptFile.data, everSaved, files)

C1_Step == ckptFile'.st = "ok" => C1_Marked(ckptFile'.data, everSaved, files)

\* C1: in every reachable state, over any number of runs, crashes and I/O
\* failures, every show that checkpoint.json marks true has an output file on
\* disk that was written after all of the show's pages and tracklists had been
\* fetched; a step that newly marks a show on disk finds that write already done.
C1_DoneImpliesOutput == [](C1_Inv) /\ [][C1_Step]_vars

\* C1 witness: a second run, after a failure, with a show marked on disk
C1_Witness ==
    /\ run > 1
    /\ \E i \in ShowIndexes : phase[i] = "Failed"
    /\ \E n \in Names : MarkedOnDisk(n)

-----------------------------------------------------------------------------
(* C2 *)

\* the credits of the catalog that carry the name of credit i
SameName(i) == {j \in ShowIndexes : CreditOf(j).name = CreditOf(i).name}

\* the only failures of this run are fetches that threw
OnlyFetchFailures ==
    /\ ~readFault
    /\ \A i \in ShowIndexes : phase[i] = "Failed" => failedFrom[i] = "Fetching"

C2_AtEnd ==
    (pc = "done" /\ OnlyFetchFailures) =>
        \A i \in ShowIndexes :
            LET n == CreditOf(i).name
            IN  /\ (\A j \in SameName(i) : phase[j] # "Failed") =>
                    /\ MarkedOnDisk(n)
                    /\ IsDone(checkpoint, n)
                    /\ ~IsDone(loaded, n) =>
                          \E j \in SameName(i) :
                              /\ phase[j] = "Checkpointed"
                              /\ files[OutputPath(j)].st = "ok"
                              /\ UpstreamTracks(CreditOf(j))
                                     \subseteq Range(files[OutputPath(j)].data)
                /\ (\A j \in SameName(i) : phase[j] = "Failed") =>
                    /\ ~MarkedOnDisk(n)
                    /\ ~IsDone(checkpoint, n)

C2_Step ==
    (Fetching /\ pc' # "crashed" /\ phase'[showIndex] = "Failed") =>
        /\ showIndex' = showIndex + 1
        /\ pc' \in {"credit", "mkdir", "done"}
        /\ UNCHANGED <<files, ckptFile, checkpoint>>

\* C2: failure isolation. A fetch that throws ends only its own show: main goes
\* on with the next credit. When a run in which some fetches threw has gone through
\* the catalog, every show none of whose credits failed is marked in the
\* checkpoint, in memory and on disk, and if it was not marked at startup it was
\* fetched, persisted (its file holds all its tracks) and checkpointed in this
\* run. A show all of whose attempts threw is marked neither in memory nor on disk.
C2_FailureIsolation == [](C2_AtEnd) /\ [][C2_Step]_vars

\* C2 witness: show 2 of 3 threw, shows 1 and 3 were checkpointed in the same run
C2_Witness ==
    /\ pc = "done"
    /\ inputData = CollideCatalog
    /\ OnlyFetchFailures
    /\ phase = (0 :> "Checkpointed") @@ (1 :> "Failed") @@ (2 :> "Checkpointed")
    /\ MarkedOnDisk(sAB) /\ MarkedOnDisk(sU) /\ ~MarkedOnDisk(sA_B)

-----------------------------------------------------------------------------
(* C3 *)

C3_Step ==
    (pc = "credit" /\ IsDone(loaded, credit.name)) =>
        \/ pc' = "crashed"
        \/ /\ pc' \in {"credit", "mkdir", "done"}
           /\ showIndex' = showIndex + 1
           /\ phase'[showIndex] = "Skipped"
           /\ UNCHANGED <<files, ckptFile, runningTotal, netCount, acquired, tokens>>

\* C3: checkpoint skip. The step main takes at a credit whose name the checkpoint
\* loaded at startup marks done issues no request, takes no token, enters no
\* fetch, and leaves every output file, checkpoint.json and the running total as
\* they are (unless the process is killed there).
C3_CheckpointSkip == [][C3_Step]_vars

\* C3 witness: a later run has skipped a show that was marked at startup
C3_Witness ==
    /\ run > 1
    /\ \E i \in ShowIndexes :
         /\ phase[i] = "Skipped"
         /\ IsDone(loaded, CreditOf(i).name)
         /\ files[OutputPath(i)].st = "ok"

-----------------------------------------------------------------------------
(* C4 *)

\* two files hold the same set of tracks (or are both missing, or both unreadable)
SetEqual(f, g) == f.st = g.st /\ Range(f.data) = Range(g.data)

\* this run has gone through the whole catalog, and neither it nor a run before
\* it met a failure or was killed
AllRunsClean == ~Running /\ RunsSoFar = "clean"

\* C4: idempotent merge. When the pipeline has run to its end without failure
\* and is run again against the same upstream, with checkpoint.json kept (the
\* shows are skipped) or removed (they are fetched again and merged into the
\* existing files), every output file holds after the second run the set of
\* tracks it held after the first.
C4_IdempotentMerge ==
    (AllRunsClean /\ prevRun.kind = "clean") =>
        \A p \in Paths : SetEqual(files[p], prevRun.files[p])

\* C4 witness: the second run, with checkpoint.json removed, has fetched a show
\* again and merged it into the file the first run wrote
C4_Witness ==
    /\ AllRunsClean
    /\ prevRun.kind = "clean"
    /\ loaded = EmptyCheckpoint
    /\ \E i \in ShowIndexes :
         /\ phase[i] = "Checkpointed"
         /\ prevRun.files[OutputPath(i)].st = "ok"
         /\ Len(prevRun.files[OutputPath(i)].data) > 1

-----------------------------------------------------------------------------
(* C5 *)

\* the credits main calls processShow for when nothing fails, from an empty
\* checkpoint: the first credit of each name
FirstOfName(i) == \A j \in ShowIndexes : j < i => CreditOf(j).name # CreditOf(i).name

\* the tracks an uninterrupted run from an empty disk leaves in the file at path p
ExpectedTracks(p) ==
    UNION {UpstreamTracks(CreditOf(i)) : i \in {j \in ShowIndexes : FirstOfName(j) /\ OutputPath(j) = p}}

ExpectedExists(p) == \E i \in ShowIndexes : FirstOfName(i) /\ OutputPath(i) = p

AsExpected(p) ==
    IF ExpectedExists(p)
    THEN files[p].st = "ok" /\ Range(files[p].data) = ExpectedTracks(p)
    ELSE files[p] = Absent

\* C5: crash recovery by idempotence. An uninterrupted first run leaves the
\* expected files. When the process is killed after a show's output was written
\* and before its checkpoint flag was persisted, the restarted process does not
\* find that show marked, fetches it again in full, and when the restarted run
\* ends without failure every output file is set-equal to the file of the
\* uninterrupted run and the show is checkpointed.
C5_CrashRecovery ==
    /\ (run = 1 /\ AllRunsClean) => \A p \in Paths : AsExpected(p)
    /\ (prevRun.kind = "killed" /\ pc # "start") => ~IsDone(loaded, CreditOf(prevRun.at).name)
    /\ (prevRun.kind = "killed" /\ pc = "done" /\ ~readFault
            /\ \A i \in ShowIndexes : phase[i] # "Failed") =>
          /\ \A p \in Paths : AsExpected(p)
          /\ phase[prevRun.at] = "Checkpointed"
          /\ UpstreamTracks(CreditOf(prevRun.at))
                 \subseteq Range(files[OutputPath(prevRun.at)].data)
          /\ \A n \in Names : MarkedOnDisk(n)

\* C5 witness: the restarted run has ended after fetching again the show whose
\* checkpoint write the kill prevented, and the file it shares with another show
\* holds the tracks of both
C5_Witness ==
    /\ prevRun.kind = "killed"
    /\ pc = "done"
    /\ ~readFault
    /\ \A i \in ShowIndexes : phase[i] # "Failed"
    /\ inputData = CollideCatalog
    /\ prevRun.at = 1
    /\ Len(files[OutputPath(1)].data) = 3

-----------------------------------------------------------------------------
(* C6 *)

\* the requests of one kind in a log
OfKind(log, kind) == SelectSeq(log, LAMBDA r : r.kind = kind)

C6_Step ==
    Fetching =>
        /\ UNCHANGED <<files, ckptFile>>
        /\ pc' # "crashed" => UNCHANGED <<checkpoint, runningTotal>>
        /\ (pc' # "crashed" /\ phase'[showIndex] = "Failed") =>
              /\ ~IsDone(checkpoint', CreditOf(showIndex).name)
              /\ failedFrom'[showIndex] = "Fetching"

C6_Complete ==
    FetchOver =>
        /\ TracksOf(allTracks) = UpstreamTracks(credit)
        /\ \A u \in UpstreamTracklistUrls(credit) :
              \E k \in DOMAIN netLog : netLog[k] = TracklistRequest(u)

\* C6: no step of a show's fetch, the failing request included, writes an output
\* file or checkpoint.json or changes the checkpoint object or the running total,
\* and a show whose request failed is unmarked in memory when its processing
\* ends; the output and the checkpoint are written only once the complete track
\* set of the show has been fetched.
C6_NoPartialPersist == [](C6_Complete) /\ [][C6_Step]_vars

\* C6 witness: a show failed at its second tracklist request, after a tracklist
\* had been fetched; it has no output file and is not marked
C6_Witness ==
    /\ showIndex > 0
    /\ phase[showIndex - 1] = "Failed"
    /\ failedFrom[showIndex - 1] = "Fetching"
    /\ Len(OfKind(netLog, "tracklist")) = 2
    /\ files[OutputPath(showIndex - 1)] = Absent
    /\ ~IsDone(checkpoint, CreditOf(showIndex - 1).name)
    /\ ~MarkedOnDisk(CreditOf(showIndex - 1).name)
    /\ runningTotal = 0

-----------------------------------------------------------------------------
(* C7 *)

\* the requests fetchAllEpisodes is to issue for a show with k non-empty pages
ExpectedEpisodeRequests(show, k) ==
    [j \in 1 .. (k + 1) |->
        [kind |-> "episodes", url |-> baseUrl \o show.path \o <<"episodes">>,
         offset |-> 12 * (j - 1), limit |-> 12]]

\* C7: pagination. Once fetchAllEpisodes has returned for a non-guest show whose
\* endpoint has k non-empty pages before its first empty page, it has issued
\* exactly the k + 1 requests at offsets 0, 12, ..., 12k, in that order, with
\* limit 12, and has returned the concatenation of the k pages in page order.
C7_Pagination ==
    (pc \in {"tl_acquire", "tl_get", "save_read", "save_write", "mark"}
        /\ ~GuestPath(credit.path)) =>
        LET k == Len(LeadingPages(upstream.episodes[credit.path]))
        IN  /\ OfKind(netLog, "episodes") = ExpectedEpisodeRequests(credit, k)
            /\ episodes = UpstreamEpisodes(credit)
            /\ \A j \in 1 .. (k + 1) : netLog[j].kind = "episodes"

\* C7 witness: two pages of 12 and an empty page: 24 episodes, 3 requests
C7_Witness ==
    /\ pc = "tl_acquire"
    /\ inputData = PagedCatalog
    /\ Len(episodes) = 24
    /\ Len(netLog) = 3
    /\ netLog[3].offset = 24

-----------------------------------------------------------------------------
(* C8 *)

C8_Step ==
    (pc = "credit" /\ ~IsDone(checkpoint, credit.name) /\ GuestPath(credit.path)
        /\ pc' # "crashed") =>
        /\ UNCHANGED <<netCount, acquired, tokens>>
        /\ netLog' = <<>>
        /\ pc' = "tl_acquire"
        /\ Len(episodes') = 1
        /\ episodes'[1].links = <<[rel |-> "tracklist",
                                  href |-> baseUrl \o credit.path \o <<"tracklist">>]>>

C8_During ==
    (InCall /\ GuestPath(credit.path)) =>
        /\ OfKind(netLog, "episodes") = <<>>
        /\ Len(episodes) = 1
        /\ pc \in {"tl_acquire", "tl_get"} => netLog = <<>>
        /\ FetchOver =>
              netLog = <<[kind |-> "tracklist",
                          url |-> baseUrl \o credit.path \o <<"tracklist">>,
                          offset |-> 0, limit |-> 0]>>

C8_After ==
    (InCall /\ GuestPath(credit.path) /\ pc' \notin {"crashed"} /\ ~InCall') =>
        Len(netLog') = 1

\* C8: guest-show shortcut. For a guest show fetchAllEpisodes issues no request
\* and takes no token, and returns one synthetic episode whose only link is
\* {rel: "tracklist", href: base + path + "/tracklist"}; the whole processing of
\* the show issues one request, for that tracklist.
C8_GuestShortcut == [](C8_During) /\ [][C8_Step /\ C8_After]_vars

\* C8 witness: a guest show has been checkpointed after one request
C8_Witness ==
    /\ showIndex > 0
    /\ GuestPath(CreditOf(showIndex - 1).path)
    /\ phase[showIndex - 1] = "Checkpointed"
    /\ Len(netLog) = 1
    /\ netLog[1].kind = "tracklist"

-----------------------------------------------------------------------------
(* C9 *)

\* tracks to compare fingerprints on: with and without a trailing space, with a
\* quote, a backslash, an empty field
SampleStrings == {sA, sASp, sB, sTQ, <<"\\">>, <<>>}

SampleTracks == [artist : SampleStrings, title : SampleStrings]

\* fingerprint(a) = fingerprint(b) iff a = b, and parsing a fingerprint gives the track back
FingerprintExact ==
    \A a, b \in SampleTracks :
        /\ (Stringify(a) = Stringify(b)) <=> (a = b)
        /\ JSONParse(Stringify(a)) = a

C9_Step ==
    (pc = "save_write" /\ pc' = "mark") =>
        LET p == OutputPath(showIndex)
            old == ReadOr(files[p], <<>>)
        IN  existingTracks = old =>
                /\ files'[p].st = "ok"
                /\ NoDuplicates(files'[p].data)
                /\ Range(files'[p].data) = Range(old) \cup UpstreamTracks(credit)

C9_Files == \A p \in Paths : NoDuplicates(files[p].data)

C9_During == (pc = "save_read" /\ run = 1) => FingerprintExact

\* C9: per-show deduplication by exact field equality. The write of a show's
\* output stores exactly one entry for each distinct (artist, title) pair that
\* occurs in a tracklist of the show or in the file as it was read, and nothing
\* else; two tracks are one entry iff artist and title are equal as they are,
\* so ("A","T") and ("A ","T") stay two entries.
C9_ExactDedup == [](C9_Files /\ C9_During) /\ [][C9_Step]_vars

\* C9 witness: a track fetched four times is one entry of the file, next to the
\* track that differs from it by a trailing space and to a track of the show
\* that shares the file
C9_Witness ==
    /\ inputData = CollideCatalog
    /\ files[OutputPath(0)].st = "ok"
    /\ Len(files[OutputPath(0)].data) = 3
    /\ Range(files[OutputPath(0)].data) =
          {[artist |-> sA, title |-> sT], [artist |-> sASp, title |-> sT],
           [artist |-> sB, title |-> sTQ]}

-----------------------------------------------------------------------------
(* C10 *)

C10_Original_Step ==
    (pc = "mark" /\ phase'[showIndex] = "Checkpointed") =>
        runningTotal' = runningTotal + Len(files[OutputPath(showIndex)].data)

\* C10 as claimed: when a show reaches Checkpointed the running total grows by
\* the number of tracks of the merged set written to its output file.
C10_Original == [][C10_Original_Step]_vars

C10_Amended_Step ==
    (pc = "mark" /\ phase'[showIndex] = "Checkpointed") =>
        /\ runningTotal' = runningTotal + Cardinality(UpstreamTracks(credit))
        /\ Cardinality(UpstreamTracks(credit)) <= Len(files[OutputPath(showIndex)].data)
        /\ ckptFile'.st = "ok"
        /\ IsDone(ckptFile'.data, credit.name)

\* What the code does at C10's step: when a show reaches Checkpointed the running total grows by the
\* number of distinct tracks fetched for the show in this run, which is at most
\* the number of tracks of the merged set written to its output file.
C10_FreshCount == [][C10_Amended_Step]_vars

\* C10 witness: two shows that share a file were checkpointed; each counted its
\* own 2 tracks, the file the second one wrote holds 3
C10_Witness ==
    /\ inputData = CollideCatalog
    /\ run = 1
    /\ showIndex = 2
    /\ phase[0] = "Checkpointed"
    /\ phase[1] = "Checkpointed"
    /\ runningTotal = 4
    /\ Len(files[OutputPath(1)].data) = 3

-----------------------------------------------------------------------------
(* C11 *)

\* main's load of checkpoint.json when the file is absent or unreadable
C11_Load ==
    (pc = "start" /\ ckptFile.st # "ok" /\ pc' # "crashed") =>
        /\ checkpoint' = EmptyCheckpoint
        /\ pc' = "mkdir"
        /\ UNCHANGED <<files, ckptFile>>

\* with an empty mapping loaded, no show is skipped unless this run marked it
C11_Attempts ==
    (pc \notin {"start", "crashed"} /\ loaded = EmptyCheckpoint) =>
        /\ \A i \in ShowIndexes :
              (i < showIndex /\ FirstOfName(i)) => phase[i] \notin {"Pending", "Skipped"}
        /\ \A i \in ShowIndexes :
              phase[i] = "Skipped" =>
                  \E j \in SameName(i) : j < i /\ phase[j] \in {"Checkpointed", "Failed"}
        /\ pc = "done" => showIndex = totalShows

\* saveTracklist's read of an output file that is absent or unreadable
C11_Read ==
    (pc = "save_read" /\ files[OutputPath(showIndex)].st # "ok" /\ pc' # "crashed") =>
        /\ pc' = "save_write"
        /\ existingTracks' = <<>>
        /\ phase'[showIndex] = "Merging"
        /\ UNCHANGED <<files, ckptFile, checkpoint>>

\* the write that follows such a read, and the checkpoint after it
C11_Write ==
    /\ (pc = "save_write" /\ files[OutputPath(showIndex)].st # "ok" /\ pc' = "mark") =>
          /\ existingTracks = <<>>
          /\ files'[OutputPath(showIndex)].st = "ok"
          /\ NoDuplicates(files'[OutputPath(showIndex)].data)
          /\ Range(files'[OutputPath(showIndex)].data) = UpstreamTracks(credit)
    /\ (pc = "mark" /\ phase'[showIndex] = "Checkpointed") =>
          /\ ckptFile'.st = "ok"
          /\ IsDone(ckptFile'.data, credit.name)

\* C11: missing or unreadable local state is an empty baseline, never an error.
\* When checkpoint.json is absent or cannot be read or parsed, main goes on with an
\* empty mapping and every show is attempted (a credit is skipped only when an
\* earlier credit of the same name went through in this run). When a show's
\* output file is absent or cannot be read or parsed, saveTracklist goes on, the
\* write stores exactly the distinct tracks fetched for the show, and the step
\* that checkpoints the show marks it in checkpoint.json.
C11_EmptyBaseline == [](C11_Attempts) /\ [][C11_Load /\ C11_Read /\ C11_Write]_vars

\* C11 witness: from an absent checkpoint.json every show was attempted; the
\* first show's write failed, so the file it shares with the second show was
\* absent or unreadable when the second show read it; the second show was
\* persisted with exactly its own tracks and is checkpointed
C11_Witness ==
    /\ inputData = CollideCatalog
    /\ run = 1
    /\ pc = "done"
    /\ ~readFault
    /\ phase[0] = "Failed" /\ failedFrom[0] = "Merging"
    /\ phase[1] = "Checkpointed"
    /\ phase[2] = "Checkpointed"
    /\ files[OutputPath(1)].st = "ok"
    /\ Range(files[OutputPath(1)].data) = UpstreamTracks(CreditOf(1))
    /\ MarkedOnDisk(sA_B)

-----------------------------------------------------------------------------
(* C12 *)

\* a request is outstanding or about to go out: its token has been taken
AtRequest == pc \in {"ep_get", "tl_get"}

C12_Inv ==
    /\ netCount <= acquired
    /\ acquired <= netCount + 1
    /\ AtRequest => acquired = netCount + 1
    /\ (Running /\ ~AtRequest) => acquired = netCount
    /\ tokens >= 0
    /\ tokens <= tokensPerInterval

C12_Step ==
    /\ netCount' # netCount =>
          \/ netCount' = 0 /\ pc' = "start"
          \/ /\ netCount' = netCount + 1
             /\ AtRequest
             /\ Len(netLog') = Len(netLog) + 1
             /\ netLog'[Len(netLog')].kind = (IF pc = "ep_get" THEN "episodes" ELSE "tracklist")
             /\ UNCHANGED <<acquired, tokens>>
    /\ (AtRequest' /\ pc' # pc) =>
          /\ pc \in {"ep_acquire", "tl_acquire"}
          /\ acquired' = acquired + 1
          /\ tokens >= 1 => tokens' >= tokens - 1
          /\ UNCHANGED netCount
    /\ (Running' /\ acquired' # acquired) => (AtRequest' /\ pc' # pc) \/ pc' = "start"

\* C12: throttling discipline. A request goes out only from the await that
\* directly follows rateLimiter.removeTokens(1), and that call took exactly one
\* token for it: at every point of a run the requests issued are at most the
\* tokens acquired (one less exactly while a request is about to go out), each
\* episodes page and each tracklist alike, and the bucket holds between zero and
\* tokensPerInterval tokens.
C12_Throttle == [](C12_Inv) /\ [][C12_Step]_vars

\* C12 witness: the slow upstream has let the bucket refill to its capacity
\* between requests; five requests went out on five tokens, episode pages and
\* tracklists
C12_Witness ==
    /\ upstream.slow
    /\ pc = "save_read"
    /\ netCount = 5
    /\ acquired = 5
    /\ Len(OfKind(netLog, "episodes")) = 3
    /\ Len(OfKind(netLog, "tracklist")) = 2
    /\ tokens = tokensPerInterval - 1

-----------------------------------------------------------------------------
(* C13 *)

\* fetchAllEpisodes is under way
Paginating == pc \in {"ep_acquire", "ep_get"}

\* processShow has fetchAllEpisodes' result: it is past line 74 and has not failed
Returned == pc \in {"tl_acquire", "tl_get", "save_read", "save_write", "mark"}

\* the endpoint returns a non-empty page at every offset the model requests
AlwaysNonEmpty(show) ==
    /\ ~GuestPath(show.path)
    /\ \A k \in 0 .. MaxPages : EpisodesResponse(upstream, show.path, 12 * k, 12) # <<>>

\* the answer to a page request that does not throw
C13_Step ==
    (pc = "ep_get" /\ pc' # "crashed" /\ phase'[showIndex] # "Failed") =>
        LET page == EpisodesResponse(upstream, credit.path, offset, 12)
        IN  IF page = <<>>
            THEN Returned' /\ episodes' = episodes
            ELSE /\ pc' = "ep_acquire"
                 /\ offset' = offset + 12
                 /\ episodes' = episodes \o page

\* the request that follows a non-empty page is for the next offset
C13_NextRequest ==
    (pc = "ep_get" /\ offset > 0) =>
        /\ netLog # <<>>
        /\ netLog[Len(netLog)].kind = "episodes"
        /\ netLog[Len(netLog)].offset = offset - 12
        /\ EpisodesResponse(upstream, credit.path, offset - 12, 12) # <<>>

\* fetchAllEpisodes has returned only after an empty page, the first one
C13_ReturnedAtEmpty ==
    (Returned /\ ~GuestPath(credit.path)) =>
        /\ EpisodesResponse(upstream, credit.path, offset, 12) = <<>>
        /\ \A k \in 0 .. MaxPages :
              12 * k < offset => EpisodesResponse(upstream, credit.path, 12 * k, 12) # <<>>

\* for an endpoint that never returns an empty page it has not returned
C13_NeverReturns ==
    /\ (InCall /\ AlwaysNonEmpty(credit)) => Paginating
    /\ \A i \in ShowIndexes :
          AlwaysNonEmpty(CreditOf(i)) =>
              /\ phase[i] \in {"Pending", "Fetching", "Failed"}
              /\ phase[i] = "Failed" => failedFrom[i] = "Fetching"

\* C13: pagination ends exactly at an empty page. A non-empty page, shorter than
\* 12 or not, is appended and the next offset is requested; fetchAllEpisodes
\* returns only on the first empty page; for an endpoint that returns an empty
\* page it eventually returns (or ends by an error or a kill), and for an endpoint
\* that returns a non-empty page at every offset it never returns.
C13_Termination ==
    /\ [](C13_NextRequest /\ C13_ReturnedAtEmpty /\ C13_NeverReturns)
    /\ [][C13_Step]_vars
    /\ ((Paginating /\ ~AlwaysNonEmpty(credit)) ~> ~Paginating)

\* C13 witness: a page of two episodes, shorter than the page size, was followed
\* by the request at offset 12, whose empty page ended the pagination
C13_Witness ==
    /\ inputData = CollideCatalog
    /\ showIndex = 0
    /\ pc = "tl_acquire"
    /\ Len(episodes) = 2
    /\ offset = 12
    /\ Len(netLog) = 2
    /\ netLog[2] = EpisodesRequest(credit.path, 12)

\* the endless endpoint has been asked for MaxPages pages and has not returned
C13_EndlessReached ==
    /\ pc = "ep_get"
    /\ AlwaysNonEmpty(credit)
    /\ offset = MaxPages * 12

-----------------------------------------------------------------------------
(* C14 *)

\* the shows this run reported an error for and did not get through under another
\* credit of the same name, each with the stage its processing failed in
FailedShows ==
    {[name |-> CreditOf(i).name, from |-> failedFrom[i]] :
        i \in {k \in ShowIndexes :
                 /\ phase[k] = "Failed"
                 /\ \A j \in ShowIndexes :
                       CreditOf(j).name = CreditOf(k).name => phase[j] # "Checkpointed"}}

\* the process is started again
Restarts == run' = run + 1

\* when the next run starts, checkpoint.json marks no show that failed in this one
C14_Unmarked ==
    Restarts =>
        \A f \in FailedShows : ~(ckptFile'.st = "ok" /\ IsDone(ckptFile'.data, f.name))

\* main calls processShow for a show that checkpoint.json did not mark at startup,
\* at the first credit that carries its name
C14_Attempt ==
    (pc = "credit" /\ ~IsDone(loaded, credit.name) /\ FirstOfName(showIndex)
        /\ pc' # "crashed") =>
        phase'[showIndex] = "Fetching"

\* a run that found every show of the catalog marked issues no request
C14_Quiet ==
    (pc # "start" /\ \A n \in Names : IsDone(loaded, n)) =>
        /\ netCount = 0
        /\ acquired = 0
        /\ \A i \in ShowIndexes : phase[i] \in {"Pending", "Skipped"}

\* C14 as claimed, its safety part: a show that failed in one run is attempted
\* again in the next run, that is, the next run does not find it marked in
\* checkpoint.json and calls processShow for it when main reaches it; and a run
\* that starts with every show name marked done issues no network request.
C14_Original == [](C14_Quiet) /\ [][C14_Unmarked /\ C14_Attempt]_vars

C14_UnmarkedAfterFetch ==
    Restarts =>
        \A f \in FailedShows :
            f.from # "Persisted" => ~(ckptFile'.st = "ok" /\ IsDone(ckptFile'.data, f.name))

\* What the code guarantees at C14's step: a show whose fetch or output write
\* threw is unmarked when the next run starts and is attempted again; a show whose
\* checkpoint write threw may be found marked.
C14_ResumeAfterFetchFailure ==
    [](C14_Quiet) /\ [][C14_UnmarkedAfterFetch /\ C14_Attempt]_vars

\* a second run has gone through a catalog it found fully marked
C14_Witness ==
    /\ run > 1
    /\ pc = "done"
    /\ \A n \in Names : IsDone(loaded, n)
    /\ netCount = 0

-----------------------------------------------------------------------------
(* C15 *)

\* the transitions of the per-show state machine
Transitions ==
    { <<"Pending", "Skipped">>, <<"Pending", "Fetching">>, <<"Fetching", "Merging">>,
      <<"Merging", "Persisted">>, <<"Persisted", "Checkpointed">>,
      <<"Fetching", "Failed">>, <<"Merging", "Failed">> }

\* every change of a show's state within a run is one of the transitions ts
Follows(ts) ==
    ~Restarts =>
        \A i \in ShowIndexes : phase'[i] # phase[i] => <<phase[i], phase'[i]>> \in ts

\* C15 as claimed: each show follows only Pending -> Skipped or Pending ->
\* Fetching -> Merging -> Persisted -> Checkpointed, and Failed is entered only
\* from Fetching or Merging: a show whose output was written is not reported as
\* failed in that run.
C15_Original == [][Follows(Transitions)]_vars

\* What the code does at C15's step: the same transitions, and Persisted ->
\* Failed when the write of checkpoint.json throws.
C15_WithPersistFailure == [][Follows(Transitions \cup {<<"Persisted", "Failed">>})]_vars

\* a show was reported as failed after its output had been written
C15_Witness ==
    \E i \in ShowIndexes :
        /\ phase[i] = "Failed"
        /\ failedFrom[i] = "Persisted"
        /\ files[OutputPath(i)].st = "ok"

-----------------------------------------------------------------------------
(* C16 *)

Terminal == {"Skipped", "Checkpointed", "Failed"}

\* the tracklist link of an episode: the first link with rel "tracklist", if any
HasTracklist(e) == \E k \in DOMAIN e.links : e.links[k].rel = "tracklist"

FirstTracklist(e) ==
    e.links[CHOOSE k \in DOMAIN e.links :
                /\ e.links[k].rel = "tracklist"
                /\ \A m \in 1 .. (k - 1) : e.links[m].rel # "tracklist"].href

\* the tracklist URLs of a show in episode page order
TracklistUrlSeq(show) ==
    IF GuestPath(show.path)
    THEN << baseUrl \o show.path \o <<"tracklist">> >>
    ELSE LET linked == SelectSeq(UpstreamEpisodes(show), HasTracklist)
         IN  [k \in DOMAIN linked |-> FirstTracklist(linked[k])]

IsPrefix(a, b) == Len(a) <= Len(b) /\ a = SubSeq(b, 1, Len(a))

\* a credit is begun only when all credits before it are over, and the credit main
\* is at is the one catalog order gives
C16_Order ==
    /\ \A i, j \in ShowIndexes :
          (i < j /\ phase[j] # "Pending") => phase[i] \in Terminal
    /\ (pc = "credit" \/ InCall) =>
          /\ showIndex \in ShowIndexes
          /\ credit = CreditOf(showIndex)
          /\ mixtape = MixtapeOf(showIndex)
          /\ \A i \in ShowIndexes : i < showIndex => phase[i] \in Terminal
          /\ \A i \in ShowIndexes : i > showIndex => phase[i] = "Pending"
    /\ pc = "done" => \A i \in ShowIndexes : phase[i] \in Terminal

\* within a show: first the episode pages, then the tracklists in page order
C16_Requests ==
    InCall =>
        LET tl == OfKind(netLog, "tracklist")
        IN  /\ netLog = OfKind(netLog, "episodes") \o tl
            /\ tl # <<>> =>
                  /\ IsPrefix([k \in DOMAIN tl |-> tl[k].url], TracklistUrlSeq(credit))
                  /\ ~GuestPath(credit.path) =>
                        EpisodesResponse(upstream, credit.path, offset, 12) = <<>>
            /\ FetchOver => Len(tl) = Len(TracklistUrlSeq(credit))

\* a request, an output write or a checkpoint write is for the credit main is at
C16_Step ==
    /\ (~Restarts /\ (netCount' # netCount \/ files' # files \/ ckptFile' # ckptFile)) =>
          /\ InCall
          /\ phase[showIndex] \notin Terminal \cup {"Pending"}
          /\ \A p \in Paths : files'[p] # files[p] => p = OutputPath(showIndex)
          /\ netCount' # netCount =>
                LET r == netLog'[Len(netLog')]
                IN  IF r.kind = "episodes"
                    THEN r.url = baseUrl \o credit.path \o <<"episodes">>
                    ELSE r.url \in UpstreamTracklistUrls(credit)
    /\ (~Restarts /\ pc' # "crashed" /\ showIndex' # showIndex) =>
          /\ showIndex' = showIndex + 1
          /\ phase'[showIndex] \in Terminal

\* C16: strictly sequential, input-ordered processing. Credits are handled in
\* catalog order; no request, output write or checkpoint write for a credit
\* happens before every earlier credit is Skipped, Checkpointed or Failed; within
\* a show the requests are the episode pages followed by the tracklists, the
\* tracklists in episode page order and after the pagination has ended.
C16_Sequential == [](C16_Order /\ C16_Requests) /\ [][C16_Step]_vars

\* C16 witness: the tracklists of episodes 1 and 13 were requested in that order
\* after the three page requests
C16_Witness ==
    /\ inputData = PagedCatalog
    /\ pc = "save_read"
    /\ Len(netLog) = 5
    /\ netLog[4].url = EpisodeTracklistUrl(<<"shows", "t">>, ToString(1))
    /\ netLog[5].url = EpisodeTracklistUrl(<<"shows", "t">>, ToString(13))

-----------------------------------------------------------------------------
(* C17 *)

\* the tracks the file at path p has held after some successful write
Held(p) == UNION {e.tracks : e \in {x \in everSaved : x.path = p}}

\* a successful write stores the union of what the file held, if readable, and
\* what was fetched
C17_Union ==
    (pc = "save_write" /\ pc' = "mark") =>
        LET p == OutputPath(showIndex)
        IN  /\ files'[p].st = "ok"
            /\ Range(files'[p].data) =
                  Range(ReadOr(files[p], <<>>)) \cup UpstreamTracks(credit)

\* C17 as claimed: every successful write stores the union of the file's previous
\* readable content and the tracks fetched in this run, and over any runs,
\* failures and restarts a readable output file holds every track it once held
\* and no track twice.
C17_Original ==
    /\ [](\A p \in Paths :
            files[p].st = "ok" =>
                Held(p) \subseteq Range(files[p].data) /\ NoDuplicates(files[p].data))
    /\ [][C17_Union]_vars

\* the write stores the union of what saveTracklist read and what was fetched
C17_UnionOfRead ==
    (pc = "save_write" /\ pc' = "mark") =>
        LET p == OutputPath(showIndex)
        IN  /\ files'[p].st = "ok"
            /\ Range(files'[p].data) = Range(existingTracks) \cup UpstreamTracks(credit)
            /\ existingTracks \in {ReadOr(files[p], <<>>), <<>>}
            /\ ~readFault => existingTracks = ReadOr(files[p], <<>>)
            /\ \A q \in Paths : q # p => files'[q] = files[q]

\* a file that stays readable and was read without error loses no track
C17_Monotone ==
    \A p \in Paths :
        (files[p].st = "ok" /\ files'[p].st = "ok"
            /\ (pc = "save_write" => existingTracks = files[p].data)) =>
            Range(files[p].data) \subseteq Range(files'[p].data)

\* C17 amended: every successful write of a show's output file stores exactly
\* the union of the tracks saveTracklist read from the file (none when the file is
\* absent or its read or parse failed) and the tracks fetched in this run, so a
\* file loses no track at a write that read it without error and never holds two
\* equal tracks; a track the file held before it became unreadable (a write that
\* failed half way) or before a read of it failed is not kept.
C17_UnionOfWhatWasRead ==
    /\ [](\A p \in Paths : NoDuplicates(files[p].data))
    /\ [][C17_UnionOfRead /\ C17_Monotone]_vars

\* C17 witness: a second run has fetched a show again after the upstream dropped
\* one of its tracks and added another; the file holds the old tracks and the new
C17_Witness ==
    /\ run = 2
    /\ ~readFault
    /\ upstream = CollideUpstreamLater
    /\ inputData = DupCatalog
    /\ pc = "mark"
    /\ credit.name = sAB
    /\ Range(files[OutputPath(showIndex)].data) =
          {[artist |-> sA, title |-> sT], [artist |-> sASp, title |-> sT],
           [artist |-> sB, title |-> sT]}

-----------------------------------------------------------------------------
(* C18 *)

\* the output file of credit i exists
HasFile(i) == files[OutputPath(i)] # Absent

\* C18 as claimed: once a run is over with a credit, processed successfully or
\* skipped as already done, the credit's output file exists under its own mixtape
\* folder, also when the show name is credited under more than one mixtape.
C18_Original ==
    \A i \in ShowIndexes : phase[i] \in {"Checkpointed", "Skipped"} => HasFile(i)

\* What the code does for C18: a credit processed successfully has its file under
\* its own mixtape folder; a skipped credit has a file under the folder of some
\* credit of the same name, which need not be its own.
C18_FileOfSomeCredit ==
    \A i \in ShowIndexes :
        /\ phase[i] = "Checkpointed" => HasFile(i)
        /\ phase[i] = "Skipped" => \E j \in SameName(i) : HasFile(j)

\* the credit of a show under a second mixtape was skipped and has no file there
C18_Witness ==
    /\ inputData = DupCatalog
    /\ pc = "done"
    /\ phase[1] = "Checkpointed"
    /\ phase[2] = "Skipped"
    /\ HasFile(1)
    /\ ~HasFile(2)

-----------------------------------------------------------------------------
(* C19 *)

\* the upstream as it is and as it was in the runs before
Versions == {upstream} \cup {u \in {sc.upstream : sc \in Scenarios} : upstream \in LaterUpstreams(u)}

\* the tracks version up of the upstream returns for a show
TracksAt(up, show) ==
    LET urls == IF GuestPath(show.path)
                THEN {baseUrl \o show.path \o <<"tracklist">>}
                ELSE {l.href : l \in {k \in UNION {Range(e.links) :
                                         e \in Range(Concat(LeadingPages(up.episodes[show.path])))} :
                                      k.rel = "tracklist"}}
    IN  UNION { {[artist |-> e.artist, title |-> e.title] : e \in Range(up.tracklists[u])}
                : u \in urls }

\* the tracks the upstream has returned for a show, in this run or an earlier one
TracksEverOf(show) == UNION {TracksAt(up, show) : up \in Versions}

\* C19 as claimed: starting from an empty output tree, every output file holds
\* only tracks that the upstream returned for the one show the file belongs to,
\* also when two show names of a mixtape sanitize to the same file name.
C19_Original ==
    \A i \in ShowIndexes :
        files[OutputPath(i)].st = "ok" =>
            Range(files[OutputPath(i)].data) \subseteq TracksEverOf(CreditOf(i))

\* What the code does for C19: a file holds only tracks of the shows whose names
\* sanitize to its name within its mixtape.
C19_TracksOfSharers ==
    \A p \in Paths :
        files[p].st = "ok" =>
            Range(files[p].data) \subseteq
                UNION {TracksEverOf(CreditOf(i)) : i \in {j \in ShowIndexes : OutputPath(j) = p}}

\* the shows "A B" and "a/b" were both saved to m1/a_b_tracklist.json, which holds
\* a track of each that the other does not have
C19_Witness ==
    /\ inputData = CollideCatalog
    /\ OutputPath(0) = OutputPath(1)
    /\ phase[0] = "Checkpointed"
    /\ phase[1] = "Checkpointed"
    /\ [artist |-> sASp, title |-> sT] \in Range(files[OutputPath(1)].data)
    /\ [artist |-> sB, title |-> sTQ] \in Range(files[OutputPath(0)].data)
    /\ [artist |-> sASp, title |-> sT] \notin TracksEverOf(CreditOf(1))
    /\ [artist |-> sB, title |-> sTQ] \notin TracksEverOf(CreditOf(0))

-----------------------------------------------------------------------------
(* C20 *)

\* the number of distinct tracks fetched for credit i in this run
FetchedCount(i) == Cardinality(TracksAt(upstream, CreditOf(i)))

\* the sum of FetchedCount over a set of credits
RECURSIVE SumCounts(_)
SumCounts(S) ==
    IF S = {} THEN 0
    ELSE LET i == CHOOSE x \in S : TRUE
         IN  FetchedCount(i) + SumCounts(S \ {i})

\* the credits that reached Checkpointed in this run
Completed == {i \in ShowIndexes : phase[i] = "Checkpointed"}

\* the credits whose checkpoint write threw
PersistFailed == {i \in ShowIndexes : phase[i] = "Failed" /\ failedFrom[i] = "Persisted"}

\* no credit of the name of credit i is in one of the given sets
NoneIn(i, S) == \A j \in SameName(i) : j \notin S

\* C20 as claimed: at every point of a run the running total is the sum of the
\* track counts of the shows that reached Checkpointed in this run; a show that
\* was skipped or ended in the error path, a failure of the checkpoint write
\* included, adds nothing and is not left marked in the in-memory checkpoint.
C20_Original ==
    pc \notin {"start", "crashed"} =>
        /\ runningTotal = SumCounts(Completed)
        /\ \A i \in ShowIndexes :
              (phase[i] = "Failed" /\ NoneIn(i, Completed)
                  /\ ~IsDone(loaded, CreditOf(i).name)) =>
                  ~IsDone(checkpoint, CreditOf(i).name)

\* What the code does for C20: the running total also counts the shows whose
\* checkpoint write threw, and these stay marked in the in-memory checkpoint; a
\* skipped show and a show whose fetch or output write threw add nothing and are
\* not marked by this run.
C20_CountsPersistFailures ==
    pc \notin {"start", "crashed"} =>
        /\ runningTotal = SumCounts(Completed \cup PersistFailed)
        /\ \A i \in ShowIndexes :
              (phase[i] = "Failed" /\ NoneIn(i, Completed \cup PersistFailed)
                  /\ ~IsDone(loaded, CreditOf(i).name)) =>
                  ~IsDone(checkpoint, CreditOf(i).name)
        /\ \A i \in PersistFailed : IsDone(checkpoint, CreditOf(i).name)

\* a show whose checkpoint write threw was counted and is marked in memory, not on disk
C20_Witness ==
    /\ inputData = CollideCatalog
    /\ pc = "credit"
    /\ showIndex = 1
    /\ phase[0] = "Failed"
    /\ failedFrom[0] = "Persisted"
    /\ runningTotal = 2
    /\ IsDone(checkpoint, sAB)
    /\ ~MarkedOnDisk(sAB)

=============================================================================
